---- MODULE Spec2Model ----
(***************************************************************************)
(* Listen-together invitations and listen sessions of backend-audiloy.     *)
(*                                                                         *)
(* The state is the three MongoDB collections the route handlers touch     *)
(* (ListenTogetherRequest, ListenSession, and the listen-together fields   *)
(* of User), the clock, and one record per in-flight HTTP request.  Every  *)
(* handler is an async function: it runs synchronously up to an `await`    *)
(* on a store call, and other requests run while it waits.  One action     *)
(* below is one such segment: the awaited store call takes effect and the  *)
(* synchronous code after it runs up to the next await (or the response).  *)
(*                                                                         *)
(* Spec     runs the handlers one request at a time (a request starts only *)
(*          when no other is in flight, and the TTL monitor runs between   *)
(*          requests): the behaviour of each handler as a whole.           *)
(* SpecConc lets the segments of two requests of A and B and the TTL       *)
(*          monitor interleave freely.                                     *)
(* SpecSync runs invitations and playback one request at a time, with      *)
(*          every sync body.                                               *)
(* SpecScenario plays one fixed sequence of eight requests of A and B, one *)
(*          request at a time.                                             *)
(* In all four the clock ticks between requests: a tick is ten minutes.    *)
(*                                                                         *)
(* toldExpired is a history variable: no handler reads it.                 *)
(*                                                                         *)
(* Mongoose semantics the handlers rely on: doc.save() of a loaded         *)
(* document writes only the paths the handler modified; assigning a whole  *)
(* array and saving adds the document's version (__v) to the update's      *)
(* filter, so the save fails (VersionError) when another versioned write   *)
(* got there first; saving a document that the store no longer holds       *)
(* fails (DocumentNotFoundError).  A failed save throws into the handler's *)
(* catch block, which answers 500.                                         *)
(***************************************************************************)
EXTENDS Integers, FiniteSets, Sequences, TLC

(***************************************************************************)
(* Bounds of the model.                                                    *)
(***************************************************************************)
\* invitations ever created in a run
MaxInv == 2
\* sessions ever created in a run
MaxSess == 2
\* requests received in a run that serves them one at a time
MaxRequests == 5
\* requests received in a run that serves them concurrently
MaxConcRequests == 4
\* requests of the end-to-end scenario
ScenarioLength == 8
\* requests received in a run that tries every sync body
MaxSyncRequests == 4
\* last value of the clock
MaxTime == 2
\* largest playback position a sync patch carries
MaxPos == 0
\* longest queue a sync patch carries
MaxQueueLen == 1

\* expiresAt = creation time + 10 minutes; one tick of the clock is 10 minutes
ExpiryTicks == 1

Users == {"A", "B", "C"}
\* User.friends: B is a friend of A and of C; A and C are not friends
friends == [u \in Users |-> IF u = "B" THEN {"A", "C"} ELSE {"B"}]
Procs == {1, 2}
Tracks == {"T1"}

ReqIds == 1 .. MaxInv
SessIds == 1 .. MaxSess
\* an absent ObjectId reference (activeListenSession, sessionId)
NoId == 0
\* an absent Date (endedAt)
NoDate == -1
\* an absent currentTrack
NoTrack == "none"

Positions == -1 .. MaxPos
Queues == UNION {[1 .. n -> Tracks] : n \in 0 .. MaxQueueLen}

VARIABLES
    now,        \* the clock read by new Date()
    requests,   \* ListenTogetherRequest collection: _id -> document
    nRequests,  \* invitations inserted so far (ids are not reused)
    sessions,   \* ListenSession collection: _id -> document
    active,     \* User.activeListenSession of each user
    inbound,    \* User.listenTogetherRequests of each user
    proc,       \* the in-flight request handled by each request slot
    reply,      \* the response being sent, if any
    budget,     \* requests the run may still receive
    toldExpired \* history: <<invitation, user>> whose Accept answered Expired

vars == <<now, requests, nRequests, sessions, active, inbound, proc, reply,
          budget, toldExpired>>


(***************************************************************************)
(* Request slots.  A slot holds what the handler keeps in local variables  *)
(* across its awaits: the documents it loaded and changed in memory.       *)
(***************************************************************************)
NoUser == "-"
PatchFields == {"position", "isPlaying", "currentTrack", "queue"}
\* req.body of POST /:sessionId/sync: `has` are the fields the body carries
Patches == {[has |-> h,
             position |-> IF "position" \in h THEN x ELSE 0,
             isPlaying |-> IF "isPlaying" \in h THEN b ELSE FALSE,
             currentTrack |-> IF "currentTrack" \in h THEN c ELSE NoTrack,
             queue |-> IF "queue" \in h THEN q ELSE <<>>] :
            h \in SUBSET PatchFields, x \in Positions, b \in BOOLEAN,
            c \in Tracks, q \in Queues}
\* two bodies a player sends: a track starts playing; the queue is replaced
SomePatches ==
    {q \in Patches :
        \/ q.has = {"currentTrack", "isPlaying", "position"} /\ q.isPlaying /\ q.position = 0
        \/ q.has = {"queue"} /\ q.queue # <<>>}
NoPatch == [has |-> {}, position |-> 0, isPlaying |-> FALSE,
            currentTrack |-> NoTrack, queue |-> <<>>]

Idle == [pc |-> "idle", user |-> NoUser, id |-> NoId, peer |-> NoUser,
         hostPtr |-> NoId, partPtr |-> NoId, sid |-> NoId,
         inbox |-> {}, parts |-> {}, mod |-> {}, stale |-> FALSE,
         failed |-> FALSE, patch |-> NoPatch]

NoBody == [currentTrack |-> NoTrack, position |-> 0, isPlaying |-> FALSE,
           updatedAt |-> 0, queue |-> <<>>, host |-> NoUser]
NoReply == [op |-> "none", kind |-> "none", id |-> NoId,
            ids |-> {}, body |-> NoBody]
Reply(o, u, k, i) == [op |-> o, kind |-> k, id |-> i,
                      ids |-> {}, body |-> NoBody]

AllIdle == \A p \in Procs : proc[p].pc = "idle"

\* slot p is at label l and no response is on its way out
At(p, l) == reply = NoReply /\ proc[p].pc = l
\* a request arrives and takes the first free slot, p
Arrive(p) ==
    /\ At(p, "idle")
    /\ \A q \in Procs : q < p => proc[q].pc # "idle"
    /\ budget > 0
    /\ budget' = budget - 1
\* the request of slot p is answered after its first store call
Answer(p, r) == reply' = r /\ UNCHANGED proc
\* the request of slot p goes on to `rec` and awaits its next store call
Await(p, rec) == reply' = NoReply /\ proc' = [proc EXCEPT ![p] = rec]

\* slot q holds a loaded User document of u that it will save with a
\* version filter (Accept's participantUser, Decline's user)
HoldsUser(q, u) ==
    /\ proc[q].user = u
    /\ proc[q].pc \in {"acc_end_host", "acc_end_part", "acc_session",
                       "acc_request", "acc_users", "dec_user_save"}
\* slot q holds a loaded ListenSession document of s that it will save
HoldsSession(q, s) ==
    /\ proc[q].id = s
    /\ proc[q].pc \in {"sync_save", "leave_unset", "leave_save"}

\* slot p moves on to `rec`; the versioned writes of this step (to the
\* users in us, the sessions in ss) make every other loaded copy stale
Go(p, rec, us, ss) ==
    proc' = [q \in Procs |->
               IF q = p THEN rec
               ELSE IF \/ \E u \in us : HoldsUser(q, u)
                       \/ \E s \in ss : HoldsSession(q, s)
                    THEN [proc[q] EXCEPT !.stale = TRUE]
                    ELSE proc[q]]
\* slot p answers and is free again
Done(p, us, ss) == Go(p, Idle, us, ss)

Start(n) ==
    /\ budget = n
    /\ now = 0
    /\ requests = <<>>
    /\ nRequests = 0
    /\ sessions = <<>>
    /\ active = [u \in Users |-> NoId]
    /\ inbound = [u \in Users |-> {}]
    /\ proc = [p \in Procs |-> Idle]
    /\ reply = NoReply
    /\ toldExpired = {}

Init == Start(MaxRequests)
InitConc == Start(MaxConcRequests)
InitScenario == Start(ScenarioLength)
InitSync == Start(MaxSyncRequests)

(***************************************************************************)
(* POST /invite/:userId                                                    *)
(***************************************************************************)
\* ListenTogetherRequest.findOne({from, to, status: 'pending'})
ExistingRequest(from, to) ==
    {r \in DOMAIN requests : /\ requests[r].from = from
                             /\ requests[r].to = to
                             /\ requests[r].status = "pending"}

\* invitations that in-flight invite handlers are about to insert
Inviting == {q \in Procs : proc[q].pc \in {"inv_find", "inv_save"}}

\* the self-invite check, the two User.findById and the friends check
InviteBegin(p, from, to) ==
    /\ Arrive(p)
    /\ IF to = from
       THEN Answer(p, Reply("invite", from, "SelfInvite", NoId))
       ELSE IF to \notin friends[from]
       THEN Answer(p, Reply("invite", from, "FriendshipRequired", NoId))
       ELSE /\ IF ExistingRequest(from, to) # {} THEN TRUE
               ELSE nRequests + Cardinality(Inviting) < MaxInv
            /\ Await(p, [Idle EXCEPT !.pc = "inv_find", !.user = from, !.peer = to])
    /\ UNCHANGED <<now, requests, nRequests, sessions, active, inbound, toldExpired>>

\* a duplicate check that renews the invitation it finds
InviteFindRenewing(p) ==
    /\ At(p, "inv_find")
    /\ IF ExistingRequest(proc[p].user, proc[p].peer) # {}
       THEN /\ reply' = Reply("invite", proc[p].user, "DuplicatePending", NoId)
            /\ requests' = [r \in DOMAIN requests |->
                              IF r \in ExistingRequest(proc[p].user, proc[p].peer)
                              THEN [requests[r] EXCEPT !.expiresAt = now + ExpiryTicks]
                              ELSE requests[r]]
            /\ Done(p, {}, {})
       ELSE /\ nRequests + Cardinality(Inviting) <= MaxInv
            /\ reply' = reply
            /\ requests' = requests
            /\ Go(p, [proc[p] EXCEPT !.pc = "inv_save"], {}, {})
    /\ UNCHANGED <<now, nRequests, sessions, active, inbound, budget, toldExpired>>

\* the findOne answers; a new request document is built (expiresAt default)
InviteFind(p) ==
    /\ At(p, "inv_find")
    /\ IF ExistingRequest(proc[p].user, proc[p].peer) # {}
       THEN /\ reply' = Reply("invite", proc[p].user, "DuplicatePending", NoId)
            /\ Done(p, {}, {})
       ELSE /\ nRequests + Cardinality(Inviting) <= MaxInv
            /\ reply' = reply
            /\ Go(p, [proc[p] EXCEPT !.pc = "inv_save"], {}, {})
    /\ UNCHANGED <<now, requests, nRequests, sessions, active, inbound, budget, toldExpired>>

\* request.save() inserts the document
InviteSave(p) ==
    /\ At(p, "inv_save")
    /\ nRequests < MaxInv
    /\ nRequests' = nRequests + 1
    /\ requests' = [r \in DOMAIN requests \cup {nRequests + 1} |->
                      IF r = nRequests + 1
                      THEN [from |-> proc[p].user, to |-> proc[p].peer,
                            status |-> "pending", sessionId |-> NoId,
                            expiresAt |-> now + ExpiryTicks]
                      ELSE requests[r]]
    /\ Go(p, [proc[p] EXCEPT !.pc = "inv_push", !.id = nRequests + 1], {}, {})
    /\ UNCHANGED <<now, sessions, active, inbound, reply, budget, toldExpired>>

\* toUser.listenTogetherRequests.push(request._id); toUser.save()
InvitePush(p) ==
    /\ At(p, "inv_push")
    /\ inbound' = [inbound EXCEPT ![proc[p].peer] = @ \cup {proc[p].id}]
    /\ reply' = Reply("invite", proc[p].user, "Ok", proc[p].id)
    /\ Done(p, {proc[p].peer}, {})
    /\ UNCHANGED <<now, requests, nRequests, sessions, active, budget, toldExpired>>

(***************************************************************************)
(* GET /requests                                                           *)
(***************************************************************************)
\* find({to, status: 'pending', expiresAt: {$gt: new Date()}})
PendingFor(u) ==
    {r \in DOMAIN requests : /\ requests[r].to = u
                             /\ requests[r].status = "pending"
                             /\ requests[r].expiresAt > now}

ListPending(p, u) ==
    /\ Arrive(p)
    /\ Answer(p, [Reply("list", u, "Ok", NoId) EXCEPT !.ids = PendingFor(u)])
    /\ UNCHANGED <<now, requests, nRequests, sessions, active, inbound, toldExpired>>

(***************************************************************************)
(* POST /requests/:requestId/accept                                        *)
(***************************************************************************)
\* sessions that in-flight accept handlers are about to insert
Accepting == {q \in Procs : proc[q].pc \in {"acc_load", "acc_end_host",
                                             "acc_end_part", "acc_session"}}

\* new ListenSession({host, participants, queue: [], playbackState, isActive})
NewSession(host, participant, t) ==
    [host |-> host, participants |-> {host, participant},
     currentTrack |-> NoTrack, queue |-> <<>>,
     position |-> 0, isPlaying |-> FALSE, updatedAt |-> t,
     isActive |-> TRUE, endedAt |-> NoDate]

\* an update that stamps endedAt and leaves isActive alone
EndByIdStampOnly(s, t) == [sessions EXCEPT ![s].endedAt = t]

\* findByIdAndUpdate(id, {isActive: false, endedAt: new Date()})
EndById(s, t) == [sessions EXCEPT ![s].isActive = FALSE, ![s].endedAt = t]

\* findById and the checks on the request: recipient, status, expiry
AcceptBegin(p, u, r) ==
    /\ Arrive(p)
    /\ IF r \notin DOMAIN requests
       THEN Answer(p, Reply("accept", u, "NotFound", NoId))
       ELSE IF requests[r].to # u
       THEN Answer(p, Reply("accept", u, "Forbidden", NoId))
       ELSE IF requests[r].status # "pending"
       THEN Answer(p, Reply("accept", u, "InvalidState", NoId))
       ELSE IF requests[r].expiresAt < now
       THEN Await(p, [Idle EXCEPT !.pc = "acc_expire", !.user = u, !.id = r])
       ELSE /\ Cardinality(DOMAIN sessions) + Cardinality(Accepting) < MaxSess
            /\ Await(p, [Idle EXCEPT !.pc = "acc_load", !.user = u, !.id = r,
                                   !.peer = requests[r].from])
    /\ UNCHANGED <<now, requests, nRequests, sessions, active, inbound, toldExpired>>

\* an expiry that is answered and not saved
AcceptExpireUnsaved(p) ==
    /\ At(p, "acc_expire")
    /\ reply' = Reply("accept", proc[p].user, "Expired", proc[p].id)
    /\ toldExpired' = toldExpired \cup {<<proc[p].id, proc[p].user>>}
    /\ Done(p, {}, {})
    /\ UNCHANGED <<now, requests, nRequests, sessions, active, inbound, budget>>

\* request.status = 'expired'; request.save()
AcceptExpire(p) ==
    /\ At(p, "acc_expire")
    /\ IF proc[p].id \in DOMAIN requests
       THEN /\ requests' = [requests EXCEPT ![proc[p].id].status = "expired"]
            /\ reply' = Reply("accept", proc[p].user, "Expired", proc[p].id)
            /\ toldExpired' = toldExpired \cup {<<proc[p].id, proc[p].user>>}
       ELSE /\ requests' = requests
            /\ reply' = Reply("accept", proc[p].user, "StoreError", proc[p].id)
            /\ toldExpired' = toldExpired
    /\ Done(p, {}, {})
    /\ UNCHANGED <<now, nRequests, sessions, active, inbound, budget>>

\* the two User.findById answer
AcceptLoad(p) ==
    /\ At(p, "acc_load")
    /\ LET hostPtr == active[proc[p].peer]
           partPtr == active[proc[p].user]
       IN Go(p, [proc[p] EXCEPT
                   !.pc = IF hostPtr # NoId THEN "acc_end_host"
                          ELSE IF partPtr # NoId THEN "acc_end_part"
                          ELSE "acc_session",
                   !.hostPtr = hostPtr, !.partPtr = partPtr,
                   !.inbox = inbound[proc[p].user], !.stale = FALSE], {}, {})
    /\ UNCHANGED <<now, requests, nRequests, sessions, active, inbound, reply, budget, toldExpired>>

\* the host's previous session is ended
AcceptEndHost(p) ==
    /\ At(p, "acc_end_host")
    /\ sessions' = EndById(proc[p].hostPtr, now)
    /\ Go(p, [proc[p] EXCEPT
                 !.pc = IF proc[p].partPtr # NoId THEN "acc_end_part" ELSE "acc_session"], {}, {})
    /\ UNCHANGED <<now, requests, nRequests, active, inbound, reply, budget, toldExpired>>

\* the participant's previous session is ended
AcceptEndPart(p) ==
    /\ At(p, "acc_end_part")
    /\ sessions' = EndById(proc[p].partPtr, now)
    /\ Go(p, [proc[p] EXCEPT !.pc = "acc_session"], {}, {})
    /\ UNCHANGED <<now, requests, nRequests, active, inbound, reply, budget, toldExpired>>

\* session.save() inserts the new session
AcceptSession(p) ==
    /\ At(p, "acc_session")
    /\ LET sid == Cardinality(DOMAIN sessions) + 1
       IN /\ sid <= MaxSess
          /\ sessions' = [s \in DOMAIN sessions \cup {sid} |->
                            IF s = sid
                            THEN NewSession(proc[p].peer, proc[p].user, now)
                            ELSE sessions[s]]
          /\ Go(p, [proc[p] EXCEPT !.pc = "acc_request", !.sid = sid], {}, {})
    /\ UNCHANGED <<now, requests, nRequests, active, inbound, reply, budget, toldExpired>>

\* request.status = 'accepted'; request.sessionId = session._id; request.save()
AcceptRequest(p) ==
    /\ At(p, "acc_request")
    /\ IF proc[p].id \in DOMAIN requests
       THEN /\ requests' = [requests EXCEPT ![proc[p].id].status = "accepted",
                                            ![proc[p].id].sessionId = proc[p].sid]
            /\ reply' = reply
            /\ Go(p, [proc[p] EXCEPT !.pc = "acc_users", !.mod = {}], {}, {})
       ELSE /\ requests' = requests
            /\ reply' = Reply("accept", proc[p].user, "StoreError", proc[p].id)
            /\ Done(p, {}, {})
    /\ UNCHANGED <<now, nRequests, sessions, active, inbound, budget, toldExpired>>

\* the answer once both User saves of the Promise.all have settled
AcceptReply(p, failed) ==
    Reply("accept", proc[p].user, IF failed THEN "StoreError" ELSE "Ok", proc[p].sid)

\* hostUser.save(): activeListenSession
AcceptSaveHost(p) ==
    /\ At(p, "acc_users")
    /\ "host" \notin proc[p].mod
    /\ active' = [active EXCEPT ![proc[p].peer] = proc[p].sid]
    /\ IF "part" \in proc[p].mod
       THEN /\ reply' = AcceptReply(p, proc[p].failed)
            /\ Done(p, {}, {})
       ELSE /\ reply' = reply
            /\ Go(p, [proc[p] EXCEPT !.mod = @ \cup {"host"}], {}, {})
    /\ UNCHANGED <<now, requests, nRequests, sessions, inbound, budget, toldExpired>>

\* participantUser.save(): activeListenSession and the filtered
\* listenTogetherRequests (a whole-array assignment: versioned)
AcceptSavePart(p) ==
    /\ At(p, "acc_users")
    /\ "part" \notin proc[p].mod
    /\ LET u == proc[p].user
           arrayChanged == proc[p].id \in proc[p].inbox
           fails == arrayChanged /\ proc[p].stale
       IN /\ active' = IF fails THEN active ELSE [active EXCEPT ![u] = proc[p].sid]
          /\ inbound' = IF arrayChanged /\ ~fails
                         THEN [inbound EXCEPT ![u] = proc[p].inbox \ {proc[p].id}]
                         ELSE inbound
          /\ IF "host" \in proc[p].mod
             THEN /\ reply' = AcceptReply(p, fails)
                  /\ Done(p, IF arrayChanged /\ ~fails THEN {u} ELSE {}, {})
             ELSE /\ reply' = reply
                  /\ Go(p, [proc[p] EXCEPT !.mod = @ \cup {"part"}, !.failed = fails],
                        IF arrayChanged /\ ~fails THEN {u} ELSE {}, {})
    /\ UNCHANGED <<now, requests, nRequests, sessions, budget, toldExpired>>

(***************************************************************************)
(* POST /requests/:requestId/decline                                       *)
(***************************************************************************)
\* findById and the recipient check; request.status = 'declined' in memory
DeclineBegin(p, u, r) ==
    /\ Arrive(p)
    /\ IF r \notin DOMAIN requests
       THEN Answer(p, Reply("decline", u, "NotFound", NoId))
       ELSE IF requests[r].to # u
       THEN Answer(p, Reply("decline", u, "Forbidden", NoId))
       ELSE Await(p, [Idle EXCEPT !.pc = "dec_save", !.user = u, !.id = r,
                        !.mod = IF requests[r].status # "declined"
                                THEN {"status"} ELSE {}])
    /\ UNCHANGED <<now, requests, nRequests, sessions, active, inbound, toldExpired>>

\* request.save()
DeclineSave(p) ==
    /\ At(p, "dec_save")
    /\ IF "status" \in proc[p].mod /\ proc[p].id \notin DOMAIN requests
       THEN /\ requests' = requests
            /\ reply' = Reply("decline", proc[p].user, "StoreError", proc[p].id)
            /\ Done(p, {}, {})
       ELSE /\ requests' = IF "status" \in proc[p].mod
                           THEN [requests EXCEPT ![proc[p].id].status = "declined"]
                           ELSE requests
            /\ reply' = reply
            /\ Go(p, [proc[p] EXCEPT !.pc = "dec_user"], {}, {})
    /\ UNCHANGED <<now, nRequests, sessions, active, inbound, budget, toldExpired>>

\* User.findById(userId)
DeclineUser(p) ==
    /\ At(p, "dec_user")
    /\ Go(p, [proc[p] EXCEPT !.pc = "dec_user_save",
                             !.inbox = inbound[proc[p].user], !.stale = FALSE], {}, {})
    /\ UNCHANGED <<now, requests, nRequests, sessions, active, inbound, reply, budget, toldExpired>>

\* user.listenTogetherRequests = filtered; user.save()
DeclineUserSave(p) ==
    /\ At(p, "dec_user_save")
    /\ LET u == proc[p].user
           arrayChanged == proc[p].id \in proc[p].inbox
           fails == arrayChanged /\ proc[p].stale
       IN /\ inbound' = IF arrayChanged /\ ~fails
                         THEN [inbound EXCEPT ![u] = proc[p].inbox \ {proc[p].id}]
                         ELSE inbound
          /\ reply' = Reply("decline", u, IF fails THEN "StoreError" ELSE "Ok", proc[p].id)
          /\ Done(p, IF arrayChanged /\ ~fails THEN {u} ELSE {}, {})
    /\ UNCHANGED <<now, requests, nRequests, sessions, active, budget, toldExpired>>

(***************************************************************************)
(* GET /active                                                             *)
(***************************************************************************)
\* User.findById and the check of user.activeListenSession
GetActiveBegin(p, u) ==
    /\ Arrive(p)
    /\ IF active[u] = NoId
       THEN Answer(p, Reply("active", u, "Ok", NoId))
       ELSE Await(p, [Idle EXCEPT !.pc = "ga_load", !.user = u, !.id = active[u]])
    /\ UNCHANGED <<now, requests, nRequests, sessions, active, inbound, toldExpired>>

\* a handler that returns whatever session the pointer references
GetActiveLoadUnchecked(p) ==
    /\ At(p, "ga_load")
    /\ reply' = Reply("active", proc[p].user, "Ok", proc[p].id)
    /\ Done(p, {}, {})
    /\ UNCHANGED <<now, requests, nRequests, sessions, active, inbound, budget, toldExpired>>

\* ListenSession.findById answers
GetActiveLoad(p) ==
    /\ At(p, "ga_load")
    /\ IF sessions[proc[p].id].isActive
       THEN /\ reply' = Reply("active", proc[p].user, "Ok", proc[p].id)
            /\ Done(p, {}, {})
       ELSE /\ reply' = reply
            /\ Go(p, [proc[p] EXCEPT !.pc = "ga_save"], {}, {})
    /\ UNCHANGED <<now, requests, nRequests, sessions, active, inbound, budget, toldExpired>>

\* user.activeListenSession = undefined; user.save()
GetActiveSave(p) ==
    /\ At(p, "ga_save")
    /\ active' = [active EXCEPT ![proc[p].user] = NoId]
    /\ reply' = Reply("active", proc[p].user, "Ok", NoId)
    /\ Done(p, {}, {})
    /\ UNCHANGED <<now, requests, nRequests, sessions, inbound, budget, toldExpired>>

(***************************************************************************)
(* GET /:sessionId/state                                                   *)
(***************************************************************************)
\* {currentTrack, playbackState, queue, host} of one read of the record
StateOf(s) ==
    [currentTrack |-> sessions[s].currentTrack, position |-> sessions[s].position,
     isPlaying |-> sessions[s].isPlaying, updatedAt |-> sessions[s].updatedAt,
     queue |-> sessions[s].queue, host |-> sessions[s].host]

ReadState(p, u, s) ==
    /\ Arrive(p)
    /\ Answer(p, IF s \notin DOMAIN sessions THEN Reply("state", u, "NotFound", NoId)
                  ELSE IF u \notin sessions[s].participants
                  THEN Reply("state", u, "Forbidden", NoId)
                  ELSE [Reply("state", u, "Ok", s) EXCEPT !.body = StateOf(s)])
    /\ UNCHANGED <<now, requests, nRequests, sessions, active, inbound, toldExpired>>

(***************************************************************************)
(* POST /:sessionId/sync                                                   *)
(***************************************************************************)
\* a handler that assigns all four fields from the body, carried or not
SyncModifiedAll(s, patch) == PatchFields

\* the paths of the loaded session that applying the body marks modified
\* (a primitive is modified when its value changes; a track or a non-empty
\* queue is a new subdocument)
SyncModified(s, patch) ==
    {f \in patch.has :
        \/ f = "position" /\ patch.position # sessions[s].position
        \/ f = "isPlaying" /\ patch.isPlaying # sessions[s].isPlaying
        \/ f = "currentTrack"
        \/ f = "queue" /\ ~(patch.queue = <<>> /\ sessions[s].queue = <<>>)}

\* a sync handler without the host check
SyncBeginAnyCaller(p, u, s, bodies) ==
    /\ Arrive(p)
    /\ IF s \notin DOMAIN sessions
       THEN Answer(p, Reply("sync", u, "NotFound", NoId))
       ELSE IF ~sessions[s].isActive
       THEN Answer(p, Reply("sync", u, "InvalidState", NoId))
       ELSE \E patch \in bodies :
                 Await(p, [Idle EXCEPT !.pc = "sync_save", !.user = u, !.id = s,
                             !.patch = patch, !.mod = SyncModified(s, patch)])
    /\ UNCHANGED <<now, requests, nRequests, sessions, active, inbound, toldExpired>>

\* findById and the checks: found, active, host; the body is applied in memory
SyncBegin(p, u, s, bodies) ==
    /\ Arrive(p)
    /\ IF s \notin DOMAIN sessions
       THEN Answer(p, Reply("sync", u, "NotFound", NoId))
       ELSE IF ~sessions[s].isActive
       THEN Answer(p, Reply("sync", u, "InvalidState", NoId))
       ELSE IF sessions[s].host # u
       THEN Answer(p, Reply("sync", u, "Forbidden", NoId))
       ELSE \E patch \in bodies :
                 Await(p, [Idle EXCEPT !.pc = "sync_save", !.user = u, !.id = s,
                             !.patch = patch, !.mod = SyncModified(s, patch)])
    /\ UNCHANGED <<now, requests, nRequests, sessions, active, inbound, toldExpired>>

\* a save that writes the stamp and drops the body
SyncedStampOnly(rec, patch, mod, t) == [rec EXCEPT !.updatedAt = t]

\* a save that writes the whole document as the handler loaded it
SyncedWholeDocument(rec, patch, mod, t) ==
    [rec EXCEPT !.position = IF "position" \in mod THEN patch.position ELSE @,
                !.isPlaying = IF "isPlaying" \in mod THEN patch.isPlaying ELSE @,
                !.currentTrack = IF "currentTrack" \in mod THEN patch.currentTrack ELSE @,
                !.queue = IF "queue" \in mod THEN patch.queue ELSE @,
                !.updatedAt = t,
                !.isActive = TRUE,
                !.endedAt = NoDate]

\* the record after the modified paths and playbackState.updatedAt are written
Synced(rec, patch, mod, t) ==
    [rec EXCEPT !.position = IF "position" \in mod THEN patch.position ELSE @,
                !.isPlaying = IF "isPlaying" \in mod THEN patch.isPlaying ELSE @,
                !.currentTrack = IF "currentTrack" \in mod THEN patch.currentTrack ELSE @,
                !.queue = IF "queue" \in mod THEN patch.queue ELSE @,
                !.updatedAt = t]

\* session.save(); assigning the queue makes the save versioned
SyncSave(p) ==
    /\ At(p, "sync_save")
    /\ LET s == proc[p].id
           fails == "queue" \in proc[p].mod /\ proc[p].stale
       IN /\ sessions' = IF fails THEN sessions
                          ELSE [sessions EXCEPT ![s] =
                                  Synced(@, proc[p].patch, proc[p].mod, now)]
          /\ reply' = Reply("sync", proc[p].user, IF fails THEN "StoreError" ELSE "Ok", s)
          /\ Done(p, {}, IF "queue" \in proc[p].mod /\ ~fails THEN {s} ELSE {})
    /\ UNCHANGED <<now, requests, nRequests, active, inbound, budget, toldExpired>>

(***************************************************************************)
(* POST /:sessionId/leave                                                  *)
(***************************************************************************)
\* User.updateMany({_id: {$in: participants}}, {$unset: {activeListenSession: 1}})
UnsetActive(us) == [u \in Users |-> IF u \in us THEN NoId ELSE active[u]]

\* both findById answer; the caller is filtered out of participants and the
\* session is ended in memory when the host leaves or nobody remains
LeaveBegin(p, u, s) ==
    /\ Arrive(p)
    /\ IF s \notin DOMAIN sessions
       THEN Answer(p, Reply("leave", u, "NotFound", NoId))
       ELSE LET remaining == sessions[s].participants \ {u}
                ends == sessions[s].host = u \/ remaining = {}
            IN Await(p, [Idle EXCEPT
                           !.pc = IF ends THEN "leave_unset" ELSE "leave_save",
                           !.user = u, !.id = s, !.parts = remaining,
                           !.mod = (IF u \in sessions[s].participants
                                    THEN {"participants"} ELSE {})
                                   \cup (IF ends /\ sessions[s].isActive
                                         THEN {"isActive"} ELSE {})
                                   \cup (IF ends THEN {"endedAt"} ELSE {})
                                   \cup (IF active[u] # NoId THEN {"user"} ELSE {})])
    /\ UNCHANGED <<now, requests, nRequests, sessions, active, inbound, toldExpired>>

\* a host's leave that skips the updateMany
LeaveUnsetNobody(p) ==
    /\ At(p, "leave_unset")
    /\ active' = active
    /\ Go(p, [proc[p] EXCEPT !.pc = "leave_save"], {}, {})
    /\ UNCHANGED <<now, requests, nRequests, sessions, inbound, reply, budget, toldExpired>>

\* the updateMany on the remaining participants
LeaveUnset(p) ==
    /\ At(p, "leave_unset")
    /\ active' = UnsetActive(proc[p].parts)
    /\ Go(p, [proc[p] EXCEPT !.pc = "leave_save"], {}, {})
    /\ UNCHANGED <<now, requests, nRequests, sessions, inbound, reply, budget, toldExpired>>

\* a save that removes the caller and stamps endedAt but leaves isActive
LeftStillActive(rec, parts, mod, t) ==
    [rec EXCEPT !.participants = IF "participants" \in mod THEN parts ELSE @,
                !.endedAt = IF "endedAt" \in mod THEN t ELSE @]

\* the record after Leave's modified paths are written
Left(rec, parts, mod, t) ==
    [rec EXCEPT !.participants = IF "participants" \in mod THEN parts ELSE @,
                !.isActive = IF "isActive" \in mod THEN FALSE ELSE @,
                !.endedAt = IF "endedAt" \in mod THEN t ELSE @]

\* session.save(); assigning participants makes the save versioned
LeaveSave(p) ==
    /\ At(p, "leave_save")
    /\ LET s == proc[p].id
           fails == "participants" \in proc[p].mod /\ proc[p].stale
       IN IF fails
          THEN /\ sessions' = sessions
               /\ reply' = Reply("leave", proc[p].user, "StoreError", s)
               /\ Done(p, {}, {})
          ELSE /\ sessions' = [sessions EXCEPT ![s] =
                                 Left(@, proc[p].parts, proc[p].mod, now)]
               /\ reply' = reply
               /\ Go(p, [proc[p] EXCEPT !.pc = "leave_user"],
                     {}, IF "participants" \in proc[p].mod THEN {s} ELSE {})
    /\ UNCHANGED <<now, requests, nRequests, active, inbound, budget, toldExpired>>

\* user.activeListenSession = undefined; user.save()
LeaveUser(p) ==
    /\ At(p, "leave_user")
    /\ active' = IF "user" \in proc[p].mod
                 THEN [active EXCEPT ![proc[p].user] = NoId] ELSE active
    /\ reply' = Reply("leave", proc[p].user, "Ok", proc[p].id)
    /\ Done(p, {}, {})
    /\ UNCHANGED <<now, requests, nRequests, sessions, inbound, budget, toldExpired>>

(***************************************************************************)
(* POST /:sessionId/end                                                    *)
(***************************************************************************)
\* findById and the host check; the session is ended in memory
EndBegin(p, u, s) ==
    /\ Arrive(p)
    /\ IF s \notin DOMAIN sessions
       THEN Answer(p, Reply("end", u, "NotFound", NoId))
       ELSE IF sessions[s].host # u
       THEN Answer(p, Reply("end", u, "Forbidden", NoId))
       ELSE Await(p, [Idle EXCEPT !.pc = "end_save", !.user = u, !.id = s,
                        !.parts = sessions[s].participants,
                        !.mod = (IF sessions[s].isActive THEN {"isActive"} ELSE {})
                                \cup {"endedAt"}])
    /\ UNCHANGED <<now, requests, nRequests, sessions, active, inbound, toldExpired>>

\* session.save()
EndSave(p) ==
    /\ At(p, "end_save")
    /\ sessions' = [sessions EXCEPT ![proc[p].id] =
                      Left(@, proc[p].parts, proc[p].mod, now)]
    /\ Go(p, [proc[p] EXCEPT !.pc = "end_unset"], {}, {})
    /\ UNCHANGED <<now, requests, nRequests, active, inbound, reply, budget, toldExpired>>

\* an End that clears the host's pointer only
EndUnsetHostOnly(p) ==
    /\ At(p, "end_unset")
    /\ active' = UnsetActive({proc[p].user})
    /\ reply' = Reply("end", proc[p].user, "Ok", proc[p].id)
    /\ Done(p, {}, {})
    /\ UNCHANGED <<now, requests, nRequests, sessions, inbound, budget, toldExpired>>

\* the updateMany on the participants of the loaded session
EndUnset(p) ==
    /\ At(p, "end_unset")
    /\ active' = UnsetActive(proc[p].parts)
    /\ reply' = Reply("end", proc[p].user, "Ok", proc[p].id)
    /\ Done(p, {}, {})
    /\ UNCHANGED <<now, requests, nRequests, sessions, inbound, budget, toldExpired>>

(***************************************************************************)
(* The clock and the TTL index on expiresAt (expireAfterSeconds: 0)        *)
(***************************************************************************)
\* a tick is ten minutes; a request is over in far less, so none is in
\* flight across a tick
Tick ==
    /\ reply = NoReply
    /\ AllIdle
    /\ now < MaxTime
    /\ now' = now + 1
    /\ UNCHANGED <<requests, nRequests, sessions, active, inbound, proc, reply, budget, toldExpired>>

\* the store's TTL monitor deletes the documents whose expiresAt has passed
Purgeable == {r \in DOMAIN requests : requests[r].expiresAt < now}
Sweep ==
    /\ reply = NoReply
    /\ Purgeable # {}
    /\ requests' = [r \in DOMAIN requests \ Purgeable |-> requests[r]]
    /\ UNCHANGED <<now, nRequests, sessions, active, inbound, proc, reply, budget, toldExpired>>

(***************************************************************************)
(* The specifications                                                      *)
(***************************************************************************)
\* a request arrives; `callers` are the users who send requests and
\* `bodies` the sync bodies they send
InvitationBegin(p, callers) ==
    \/ \E u, v \in callers : InviteBegin(p, u, v)
    \/ \E u \in callers : ListPending(p, u)
    \/ \E u \in callers, r \in ReqIds : AcceptBegin(p, u, r)
    \/ \E u \in callers, r \in ReqIds : DeclineBegin(p, u, r)

PlaybackBegin(p, bodies, callers) ==
    \/ \E u \in callers, s \in SessIds : ReadState(p, u, s)
    \/ \E u \in callers, s \in SessIds : SyncBegin(p, u, s, bodies)

LifecycleBegin(p, callers) ==
    \/ \E u \in callers : GetActiveBegin(p, u)
    \/ \E u \in callers, s \in SessIds : LeaveBegin(p, u, s)
    \/ \E u \in callers, s \in SessIds : EndBegin(p, u, s)

\* a store call of an in-flight request answers
InvitationContinue(p) ==
    \/ InviteFind(p) \/ InviteSave(p) \/ InvitePush(p)
    \/ AcceptExpire(p) \/ AcceptLoad(p) \/ AcceptEndHost(p) \/ AcceptEndPart(p)
    \/ AcceptSession(p) \/ AcceptRequest(p) \/ AcceptSaveHost(p) \/ AcceptSavePart(p)
    \/ DeclineSave(p) \/ DeclineUser(p) \/ DeclineUserSave(p)

PlaybackContinue(p) == SyncSave(p)

LifecycleContinue(p) ==
    \/ GetActiveLoad(p) \/ GetActiveSave(p)
    \/ LeaveUnset(p) \/ LeaveSave(p) \/ LeaveUser(p)
    \/ EndSave(p) \/ EndUnset(p)

\* the response has left
Sent ==
    /\ reply # NoReply
    /\ reply' = NoReply
    /\ UNCHANGED <<now, requests, nRequests, sessions, active, inbound, proc, budget, toldExpired>>

\* the TTL monitor runs between requests
QuietSweep == AllIdle /\ Sweep

\* requests one at a time: a single slot serves them
Next ==
    \/ InvitationBegin(1, Users)
    \/ PlaybackBegin(1, SomePatches, Users)
    \/ LifecycleBegin(1, Users)
    \/ InvitationContinue(1)
    \/ PlaybackContinue(1)
    \/ LifecycleContinue(1)
    \/ Tick
    \/ QuietSweep
    \/ Sent

Spec == Init /\ [][Next]_vars

\* the requests of A and B and the TTL monitor interleaved
NextConc ==
    \/ \E p \in Procs : InvitationBegin(p, {"A", "B"})
    \/ \E p \in Procs : PlaybackBegin(p, SomePatches, {"A", "B"})
    \/ \E p \in Procs : LifecycleBegin(p, {"A", "B"})
    \/ \E p \in Procs : InvitationContinue(p)
    \/ \E p \in Procs : PlaybackContinue(p)
    \/ \E p \in Procs : LifecycleContinue(p)
    \/ Tick
    \/ Sweep
    \/ Sent

SpecConc == InitConc /\ [][NextConc]_vars

\* playback: A and B invite, accept and decline, and send every sync body,
\* one request at a time; nobody leaves or ends a session
NextSync ==
    \/ InvitationBegin(1, {"A", "B"})
    \/ PlaybackBegin(1, Patches, {"A", "B"})
    \/ InvitationContinue(1)
    \/ PlaybackContinue(1)
    \/ Tick
    \/ Sent

SpecSync == InitSync /\ [][NextSync]_vars

\* the end-to-end scenario: A invites B, B lists, B accepts, A and B ask for
\* their active session, A syncs a playing track, B reads the state, B
\* leaves.  The clock and the TTL monitor run between the requests.
ScenarioPatch == [NoPatch EXCEPT !.has = {"currentTrack", "isPlaying", "position"},
                                 !.currentTrack = "T1", !.isPlaying = TRUE]

\* k requests of the scenario have been received
Played(k) == budget = ScenarioLength - k

ScenarioBegin(p) ==
    \/ Played(0) /\ InviteBegin(p, "A", "B")
    \/ Played(1) /\ ListPending(p, "B")
    \/ Played(2) /\ AcceptBegin(p, "B", 1)
    \/ Played(3) /\ GetActiveBegin(p, "A")
    \/ Played(4) /\ GetActiveBegin(p, "B")
    \/ Played(5) /\ SyncBegin(p, "A", 1, {ScenarioPatch})
    \/ Played(6) /\ ReadState(p, "B", 1)
    \/ Played(7) /\ LeaveBegin(p, "B", 1)

\* the segments of the handlers that the scenario reaches
NextScenario ==
    \/ ScenarioBegin(1)
    \/ InviteFind(1) \/ InviteSave(1) \/ InvitePush(1)
    \/ AcceptExpire(1) \/ AcceptLoad(1) \/ AcceptSession(1) \/ AcceptRequest(1)
    \/ AcceptSaveHost(1) \/ AcceptSavePart(1)
    \/ GetActiveLoad(1)
    \/ SyncSave(1)
    \/ LeaveSave(1) \/ LeaveUser(1)
    \/ Tick
    \/ QuietSweep
    \/ Sent

SpecScenario == InitScenario /\ [][NextScenario]_vars

(***************************************************************************)
(* Properties                                                              *)
(***************************************************************************)
\* the sessions with isActive = true that list u among their participants
ActiveSessionsOf(u) ==
    {s \in DOMAIN sessions : sessions[s].isActive /\ u \in sessions[s].participants}

\* C1: in every reachable state each user is a participant of at most one
\* session with isActive = true
C1_OneActiveSessionPerUser ==
    \A u \in Users : Cardinality(ActiveSessionsOf(u)) <= 1

\* the sessions known to have been created by an Accept of invitation r: the
\* ones in-flight Accepts of r have inserted, and the one r records
SessionsFrom(r) ==
    {proc[p].sid : p \in {q \in Procs : /\ proc[q].id = r
                                        /\ proc[q].pc \in {"acc_request", "acc_users"}}}
    \cup (IF r \in DOMAIN requests /\ requests[r].sessionId # NoId
          THEN {requests[r].sessionId} ELSE {})

\* C2: no invitation gives rise to more than one session, also when two
\* Accept requests for the same invitation interleave
C2_OneSessionPerInvitation ==
    \A r \in ReqIds : Cardinality(SessionsFrom(r)) <= 1

\* slot p answers its Accept with success in this step
AcceptCompletes(p) ==
    /\ proc[p].pc = "acc_users"
    /\ proc'[p].pc = "idle"
    /\ reply'.op = "accept"
    /\ reply'.kind = "Ok"

\* session s is ended in the next state
EndedNext(s) == ~sessions'[s].isActive /\ sessions'[s].endedAt # NoDate

\* C3: when an Accept completes with success, the session that the pointer
\* of the inviter or of the invitee referenced when the Accept loaded the
\* users is inactive with endedAt set, and both pointers reference the new
\* session, which is neither of the old ones
C3_AcceptSupersedes ==
    [][\A p \in Procs :
          AcceptCompletes(p) =>
              /\ proc[p].hostPtr # NoId => EndedNext(proc[p].hostPtr)
              /\ proc[p].partPtr # NoId => EndedNext(proc[p].partPtr)
              /\ active'[proc[p].peer] = proc[p].sid
              /\ active'[proc[p].user] = proc[p].sid
              /\ proc[p].sid \notin {proc[p].hostPtr, proc[p].partPtr}
              /\ sessions'[proc[p].sid].isActive]_vars

\* C3 happens: after two invitations and two Accepts and nothing else, the
\* second Accept has just answered with session 2, session 1 is ended and a
\* participant of session 1 now points at session 2
C3_Witness ==
    /\ budget = MaxRequests - 4
    /\ reply.op = "accept" /\ reply.kind = "Ok" /\ reply.id = 2
    /\ 1 \in DOMAIN sessions
    /\ ~sessions[1].isActive /\ sessions[1].endedAt # NoDate
    /\ \E u \in sessions[1].participants : active[u] = 2

\* C4: the status of an invitation changes only from pending
C4_StatusMonotonic ==
    [][\A r \in DOMAIN requests \cap DOMAIN requests' :
          requests'[r].status # requests[r].status
              => requests[r].status = "pending"]_vars

\* C5: sessionId is set exactly when the status is accepted, and once set
\* it never changes
C5_SessionIdIffAccepted ==
    [][\A r \in DOMAIN requests' :
          /\ requests'[r].sessionId # NoId <=> requests'[r].status = "accepted"
          /\ (r \in DOMAIN requests /\ requests[r].sessionId # NoId)
                 => requests'[r].sessionId = requests[r].sessionId]_vars

\* C6: for every ordered pair of users there is at most one stored
\* invitation with status pending
C6_AtMostOnePending ==
    \A from, to \in Users : Cardinality(ExistingRequest(from, to)) <= 1

\* slot p saves the expiry its Accept discovered and answers
AcceptExpires(p) == proc[p].pc = "acc_expire" /\ proc'[p].pc = "idle"

\* an Accept that found the invitation pending after expiresAt stores the
\* status expired, answers Expired and touches no session and no pointer
ExpiredIsStored(p) ==
    AcceptExpires(p) =>
        /\ proc[p].id \in DOMAIN requests'
        /\ requests'[proc[p].id].status = "expired"
        /\ reply'.op = "accept" /\ reply'.kind = "Expired"
        /\ UNCHANGED <<sessions, active>>

\* C7: an Accept of a pending invitation after expiresAt stores status
\* expired and answers Expired; an Accept by the same user of an invitation
\* whose Accept has answered Expired answers InvalidState while the
\* invitation is still stored, and NotFound once the TTL monitor has purged
\* it, and changes nothing
C7_LaterAcceptRejected ==
    [][\A p \in Procs :
          /\ ExpiredIsStored(p)
          /\ \A u \in Users, r \in ReqIds :
                (AcceptBegin(p, u, r) /\ <<r, u>> \in toldExpired) =>
                    /\ reply'.kind = IF r \in DOMAIN requests
                                     THEN "InvalidState" ELSE "NotFound"
                    /\ UNCHANGED <<requests, sessions, active, inbound, proc>>]_vars

\* C7 as the specification states it: every later Accept answers InvalidState
C7_LaterAcceptInvalidState ==
    [][\A p \in Procs :
          /\ ExpiredIsStored(p)
          /\ \A u \in Users, r \in ReqIds :
                (AcceptBegin(p, u, r) /\ <<r, u>> \in toldExpired) =>
                    /\ reply'.kind = "InvalidState"
                    /\ UNCHANGED <<requests, sessions, active, inbound, proc>>]_vars

\* C7 happens: the one invitation was answered Expired, the TTL monitor has
\* purged it, and an Accept has just been answered NotFound
C7_Witness ==
    /\ toldExpired # {}
    /\ nRequests = 1
    /\ requests = <<>>
    /\ reply.op = "accept" /\ reply.kind = "NotFound"

\* C8: an invitation stored as pending whose expiresAt has passed is not
\* listed by ListPending, is rejected by Accept, and is not counted by the
\* duplicate check of Invite
C8_ExpiredPendingIsExpired ==
    [][\A p \in Procs :
          /\ \A u \in Users :
                ListPending(p, u) =>
                    reply'.ids = {r \in DOMAIN requests :
                                     /\ requests[r].to = u
                                     /\ requests[r].status = "pending"
                                     /\ requests[r].expiresAt > now}
          /\ \A u \in Users, r \in DOMAIN requests :
                (AcceptBegin(p, u, r) /\ requests[r].expiresAt < now) =>
                    proc'[p].pc # "acc_load"
          /\ (InviteFind(p) /\ reply'.kind = "DuplicatePending") =>
                \E r \in ExistingRequest(proc[p].user, proc[p].peer) :
                    ~(requests[r].expiresAt < now)]_vars

\* currentTrack, queue and playbackState of a session record
Playback(rec) ==
    <<rec.currentTrack, rec.queue, rec.position, rec.isPlaying, rec.updatedAt>>

\* C9: a sync by a caller other than the host leaves every session record
\* unchanged and, on an active session, answers Forbidden; currentTrack,
\* queue and playbackState of a session change only in the save of a sync
\* sent by the host of that session, which is active
C9_SingleWriter ==
    [][/\ \A p \in Procs, u \in Users, s \in DOMAIN sessions :
             (SyncBegin(p, u, s, Patches) /\ sessions[s].host # u) =>
                 /\ sessions' = sessions
                 /\ proc' = proc
                 /\ sessions[s].isActive => reply'.kind = "Forbidden"
       /\ \A s \in DOMAIN sessions :
             Playback(sessions'[s]) # Playback(sessions[s]) =>
                 /\ sessions[s].isActive
                 /\ \E p \in Procs : /\ proc[p].pc = "sync_save"
                                     /\ proc[p].id = s
                                     /\ proc[p].user = sessions[s].host]_vars

\* C9 happens: the host has set a track on a session that is still active,
\* and a sync by somebody else has just been answered Forbidden
C9_Witness ==
    /\ reply.op = "sync" /\ reply.kind = "Forbidden"
    /\ \E s \in DOMAIN sessions :
          sessions[s].isActive /\ sessions[s].currentTrack # NoTrack

\* slot p answers its sync with success in this step
SyncCompletes(p) ==
    /\ proc[p].pc = "sync_save"
    /\ reply'.op = "sync"
    /\ reply'.kind = "Ok"

\* C10: a successful sync gives each field the body carries the body's
\* value, keeps each field the body does not carry, stamps updatedAt with
\* the clock, and leaves host, participants, isActive and endedAt alone
C10_PatchFrame ==
    [][\A p \in Procs :
          SyncCompletes(p) =>
              LET body == proc[p].patch
                  old == sessions[proc[p].id]
                  new == sessions'[proc[p].id]
              IN /\ new.position = IF "position" \in body.has
                                   THEN body.position ELSE old.position
                 /\ new.isPlaying = IF "isPlaying" \in body.has
                                    THEN body.isPlaying ELSE old.isPlaying
                 /\ new.currentTrack = IF "currentTrack" \in body.has
                                       THEN body.currentTrack ELSE old.currentTrack
                 /\ new.queue = IF "queue" \in body.has
                                THEN body.queue ELSE old.queue
                 /\ new.updatedAt = now
                 /\ new.host = old.host
                 /\ new.participants = old.participants
                 /\ new.isActive = old.isActive
                 /\ new.endedAt = old.endedAt]_vars

\* C10 happens: the third request of the run, a sync sent after a tick, has
\* just succeeded; it set isPlaying and the stamp and left the session
\* without a track
C10_Witness ==
    /\ budget = MaxSyncRequests - 3
    /\ reply.op = "sync" /\ reply.kind = "Ok"
    /\ sessions[reply.id].isPlaying
    /\ sessions[reply.id].currentTrack = NoTrack
    /\ sessions[reply.id].updatedAt = 1

\* C11: when a Leave answers, the caller's pointer is cleared; if the
\* caller is the host, the session is ended and the pointer of every
\* remaining participant is cleared; if the caller is another participant
\* and somebody remains, the save removes the caller, leaves isActive as it
\* was and touches no pointer, and the last step changes no other pointer
C11_Leave ==
    [][\A p \in Procs :
          LET u == proc[p].user
              s == proc[p].id
              nonHost == /\ sessions[s].host # u
                         /\ "participants" \in proc[p].mod
                         /\ proc[p].parts # {}
          IN /\ (proc[p].pc = "leave_user" /\ proc'[p].pc = "idle") =>
                    /\ reply'.op = "leave" /\ reply'.kind = "Ok"
                    /\ active'[u] = NoId
                    /\ sessions[s].host = u =>
                           /\ EndedNext(s)
                           /\ \A v \in sessions'[s].participants : active'[v] = NoId
                    /\ nonHost =>
                           /\ u \notin sessions'[s].participants
                           /\ \A v \in Users \ {u} : active'[v] = active[v]
             /\ (proc[p].pc = "leave_save" /\ proc'[p].pc # "leave_save" /\ nonHost) =>
                    /\ sessions'[s].isActive = sessions[s].isActive
                    /\ sessions'[s].endedAt = sessions[s].endedAt
                    /\ sessions'[s].participants = sessions[s].participants \ {u}
                    /\ active' = active]_vars

\* C11 happens: a Leave has just answered, its session is still active and
\* holds only its host, whose pointer still references it
C11_Witness ==
    /\ reply.op = "leave" /\ reply.kind = "Ok"
    /\ sessions[reply.id].isActive
    /\ sessions[reply.id].participants = {sessions[reply.id].host}
    /\ active[sessions[reply.id].host] = reply.id

\* C12: GetActive answers with a session only if it is active, and then it
\* changes nothing; when the pointer references an ended session it
\* answers with no session and clears the caller's pointer and nothing
\* else; when the pointer is unset it answers with no session and changes
\* nothing
C12_GetActive ==
    [][\A p \in Procs :
          /\ \A u \in Users :
                (GetActiveBegin(p, u) /\ active[u] = NoId) =>
                    /\ reply'.op = "active" /\ reply'.id = NoId
                    /\ UNCHANGED <<requests, sessions, active, inbound, proc>>
          /\ (proc[p].pc = "ga_load" /\ proc'[p].pc = "idle") =>
                    /\ reply'.op = "active" /\ reply'.id = active[proc[p].user]
                    /\ sessions[reply'.id].isActive
                    /\ UNCHANGED <<requests, sessions, active, inbound>>
          /\ (proc[p].pc = "ga_load" /\ proc'[p].pc # "idle") =>
                    /\ ~sessions[proc[p].id].isActive
                    /\ UNCHANGED <<requests, sessions, active, inbound>>
          /\ (proc[p].pc = "ga_save" /\ proc'[p].pc = "idle") =>
                    /\ reply'.op = "active" /\ reply'.id = NoId
                    /\ active' = [active EXCEPT ![proc[p].user] = NoId]
                    /\ UNCHANGED <<requests, sessions, inbound>>]_vars

\* C12 happens: after two invitations and two Accepts, the fifth request, a
\* GetActive of a user whose session was superseded, has just answered with
\* no session and that user's pointer is clear
C12_Witness ==
    /\ budget = MaxRequests - 5
    /\ reply.op = "active" /\ reply.id = NoId
    /\ DOMAIN sessions = {1, 2}
    /\ \E u \in sessions[1].participants \ sessions[2].participants :
          active[u] = NoId

\* what the scenario shows up to B's ReadState, as long as B accepted in
\* time (session 1 exists): the answers of ListPending, Accept, GetActive,
\* SyncPlayback and ReadState
ScenarioAnswers ==
    /\ (reply.op = "list" /\ 1 \in DOMAIN requests /\ requests[1].expiresAt > now) =>
           reply.ids = {1} /\ requests[1].status = "pending"
    /\ reply.op = "accept" =>
           \/ reply.kind = "Ok" /\ reply.id = 1
           \/ 1 \notin DOMAIN requests
           \/ requests[1].status = "expired"
    /\ (reply.op = "active" /\ 1 \in DOMAIN sessions) =>
           /\ reply.id = 1
           /\ sessions[1].host = "A"
           /\ sessions[1].participants = {"A", "B"}
    /\ (reply.op = "sync" /\ 1 \in DOMAIN sessions) => reply.kind = "Ok"
    /\ (reply.op = "state" /\ 1 \in DOMAIN sessions) =>
           /\ reply.kind = "Ok"
           /\ reply.body.currentTrack = "T1"
           /\ reply.body.isPlaying

\* B's Leave has answered at the end of the scenario
ScenarioLeft == reply.op = "leave" /\ 1 \in DOMAIN sessions

\* C13: in the end-to-end scenario every answer is as described, and after
\* B's Leave the session is still active with A as its only participant,
\* A's pointer still references it and B's pointer is cleared
C13_ScenarioLeaveKeepsSession ==
    /\ ScenarioAnswers
    /\ ScenarioLeft =>
           /\ reply.kind = "Ok"
           /\ sessions[1].isActive
           /\ sessions[1].participants = {"A"}
           /\ active["A"] = 1
           /\ active["B"] = NoId

\* C13 as the specification states it: after B's Leave the session is
\* inactive and A's pointer is cleared
C13_ScenarioLeaveEndsSession ==
    /\ ScenarioAnswers
    /\ ScenarioLeft =>
           /\ reply.kind = "Ok"
           /\ ~sessions[1].isActive
           /\ active["A"] = NoId

\* C13 happens: all eight requests of the scenario are answered, the last
\* one is B's Leave, and the session carries the track A synced
C13_Witness ==
    /\ Played(8)
    /\ ScenarioLeft
    /\ reply.kind = "Ok"
    /\ sessions[1].currentTrack = "T1"
    /\ sessions[1].isPlaying

\* C14: every session with isActive = true has its host among its
\* participants (so they are not empty)
C14_ActiveHasHost ==
    \A s \in DOMAIN sessions :
        sessions[s].isActive =>
            /\ sessions[s].host \in sessions[s].participants
            /\ sessions[s].participants # {}

\* C14 happens: the host and another participant left the same session at
\* once; the other's save came first, the session is still active, and the
\* host's save, read before it, is still to come
C14_Witness ==
    \E p, q \in Procs :
        /\ proc[p].pc = "leave_user"
        /\ proc[q].pc \in {"leave_unset", "leave_save"}
        /\ proc[q].id = proc[p].id
        /\ proc[q].stale
        /\ proc[q].user = sessions[proc[q].id].host
        /\ proc[p].user # proc[q].user
        /\ sessions[proc[q].id].isActive

\* C15: a session is inactive exactly when its endedAt is set, and an
\* inactive session stays inactive
C15_EndedForGood ==
    [][\A s \in DOMAIN sessions' :
          /\ ~sessions'[s].isActive <=> sessions'[s].endedAt # NoDate
          /\ (s \in DOMAIN sessions /\ ~sessions[s].isActive)
                 => ~sessions'[s].isActive]_vars

\* C15 happens: a sync read the session while it was active, the session
\* was ended, and the sync's save has just succeeded on the ended session
C15_Witness ==
    /\ reply.op = "sync" /\ reply.kind = "Ok"
    /\ ~sessions[reply.id].isActive
    /\ sessions[reply.id].endedAt # NoDate

\* C16: the stored position of every session is non-negative
C16_PositionNonNegative ==
    \A s \in DOMAIN sessions : sessions[s].position >= 0

\* the answers that reject a request for a business rule
Rejections == {"SelfInvite", "FriendshipRequired", "DuplicatePending",
               "NotFound", "Forbidden", "InvalidState"}

\* C17: a step that answers with a rejection, and the reads of the handler
\* that precede it, change no invitation, no session, no pointer and no
\* inbound set; the step that answers Expired changes the status of that
\* invitation to expired and nothing else
C17_RejectedChangesNothing ==
    [][/\ (reply = NoReply /\ reply'.kind \in Rejections) =>
              UNCHANGED <<requests, sessions, active, inbound>>
       /\ \A p \in Procs :
              (proc[p].pc = "idle" /\ proc'[p].pc \in {"inv_find", "acc_expire"}) =>
                  UNCHANGED <<requests, sessions, active, inbound>>
       /\ (reply = NoReply /\ reply'.kind = "Expired") =>
              /\ requests' = [requests EXCEPT ![reply'.id].status = "expired"]
              /\ UNCHANGED <<sessions, active, inbound>>]_vars

\* C17 happens: a second invitation to the same friend, sent after a tick,
\* has just been rejected as a duplicate, and the first one is as it was
C17_Witness ==
    /\ reply.op = "invite" /\ reply.kind = "DuplicatePending"
    /\ now > 0
    /\ nRequests = 1
    /\ 1 \in DOMAIN requests
    /\ requests[1].status = "pending"
    /\ requests[1].expiresAt = ExpiryTicks
    /\ inbound[requests[1].to] = {1}

\* C18: an End by somebody other than the host answers Forbidden and
\* changes nothing; when an End by the host answers, the session is ended,
\* the pointer of each of its participants is cleared and no pointer
\* references the session
C18_End ==
    [][\A p \in Procs :
          /\ \A u \in Users, s \in DOMAIN sessions :
                (EndBegin(p, u, s) /\ sessions[s].host # u) =>
                    /\ reply'.op = "end" /\ reply'.kind = "Forbidden"
                    /\ UNCHANGED <<requests, sessions, active, inbound, proc>>
          /\ (proc[p].pc = "end_unset" /\ proc'[p].pc = "idle") =>
                    /\ reply'.op = "end" /\ reply'.kind = "Ok"
                    /\ proc[p].user = sessions[proc[p].id].host
                    /\ EndedNext(proc[p].id)
                    /\ \A v \in sessions'[proc[p].id].participants : active'[v] = NoId
                    /\ \A v \in Users : active'[v] # proc[p].id]_vars

\* C18 happens: after an invitation and its Accept, the third request, the
\* host's End, has just answered: the session is ended and the pointers of
\* its two participants are clear
C18_Witness ==
    /\ budget = MaxRequests - 3
    /\ reply.op = "end" /\ reply.kind = "Ok"
    /\ ~sessions[reply.id].isActive
    /\ Cardinality(sessions[reply.id].participants) = 2
    /\ \A v \in sessions[reply.id].participants : active[v] = NoId

\* C19: while an Accept that has stored status accepted has not answered,
\* and its new session is active, both users' pointers reference the new
\* session; and when an Accept has answered with success, the pointers of
\* the inviter and the invitee reference the session it answered with
C19_PointersAtomic ==
    /\ \A p \in Procs :
          (/\ proc[p].pc = "acc_users"
           /\ proc[p].id \in DOMAIN requests
           /\ requests[proc[p].id].status = "accepted"
           /\ sessions[proc[p].sid].isActive) =>
              /\ active[proc[p].peer] = proc[p].sid
              /\ active[proc[p].user] = proc[p].sid
    /\ (reply.op = "accept" /\ reply.kind = "Ok") =>
          \A u \in sessions[reply.id].participants : active[u] = reply.id

\* the stored invitations addressed to u whose status is pending
PendingTo(u) ==
    {r \in DOMAIN requests : requests[r].to = u /\ requests[r].status = "pending"}

\* C20: whenever no request is in flight, each user's inbound set holds
\* exactly the stored invitations addressed to that user that are pending
C20_InboundIsPending ==
    AllIdle => \A u \in Users : inbound[u] = PendingTo(u)

\* the segments of Leave and End that write users' pointers
ClearingSteps == {"leave_unset", "leave_user", "end_unset"}

\* C21: a step of Leave or End on session S leaves alone the pointer of every
\* user whose pointer references another session that is still active
C21_ClearsOnlyOwnSession ==
    [][\A p \in Procs :
          proc[p].pc \in ClearingSteps =>
              \A v \in Users :
                  (/\ active[v] # NoId
                   /\ active[v] # proc[p].id
                   /\ sessions[active[v]].isActive) => active'[v] = active[v]]_vars

\* C22: once a session is inactive its endedAt never changes
C22_EndedAtWrittenOnce ==
    [][\A s \in DOMAIN sessions :
          ~sessions[s].isActive => sessions'[s].endedAt = sessions[s].endedAt]_vars

====
